---- MODULE Spec2Model ----
(***************************************************************************)
(* The memory-pool storage of the Narwhal BFT (node/narwhal/src/helpers/   *)
(* storage.rs): the per-round committees, the certificates of each round,  *)
(* the batch IDs, the transmissions and the index of the certificates that *)
(* cite each transmission, with the garbage collection that                *)
(* insert_committee runs; with it the BFTMemoryService (node/bft/          *)
(* storage-service/src/memory.rs), the liveness check of a timestamp       *)
(* (node/narwhal/src/helpers/timestamp.rs) and the PeerBook                *)
(* (network/src/peers/peer_book.rs).                                       *)
(*                                                                         *)
(* Every IndexMap is a function whose DOMAIN is its key set; the IndexSet  *)
(* of a round is a sequence without duplicates, because its order is what  *)
(* get_certificates_for_round returns.                                     *)
(***************************************************************************)
EXTENDS Integers, Sequences, FiniteSets, TLC

(* ---------------------------------------------------------------- bounds *)

\* Committees are inserted for the rounds 0..MaxRound.
MaxRound == 2
\* insert_certificate is called while fewer than MaxCerts certificates are stored.
MaxCerts == 3
\* Storage::new(max_gc_rounds) is called with a window in 0..MaxGcRounds.
MaxGcRounds == 1
\* The threads start at most MaxCalls operations between them.
MaxCalls == 4
\* The transmission service is called for the certificate IDs
\* 1..MaxServiceCertificates.
MaxServiceCertificates == 2
\* The clock reads 0..MaxNow.
MaxNow == 3
\* The peer book is called with the addresses 1..MaxPeers.
MaxPeers == 2
\* MAX_TIMESTAMP_DELTA_IN_SECS, scaled down to the clock of the model.
MAX_TIMESTAMP_DELTA_IN_SECS == 2

VARIABLES
    committees,        \* round -> committee
    gc_round,          \* the round garbage collection has occurred up to
    max_gc_rounds,     \* the number of rounds to keep
    rounds,            \* round -> sequence of <<certificate ID, batch ID, author>>
    certificates,      \* certificate ID -> certificate
    batch_ids,         \* batch ID -> round
    transmission_ids,  \* transmission ID -> set of certificate IDs
    transmissions,     \* transmission ID -> transmission
    procs,             \* thread -> the operation it runs and where it stands in it
    calls,             \* the number of operations the threads have started
    memory_transmissions,  \* BFTMemoryService: transmission ID -> (transmission,
                           \* certificate IDs)
    memory_result,     \* what the last call of the BFTMemoryService returned
    unix_timestamp,    \* OffsetDateTime::now_utc().unix_timestamp()
    liveness,          \* the last call of check_timestamp_for_liveness
    connecting_peers,  \* PeerBook: the addresses being handshaken with
    connected_peers,   \* PeerBook: address -> peer info
    disconnected_peers,  \* PeerBook: address -> peer info
    peer_result,       \* the last call of the PeerBook
    find_result        \* what a caller of the BFTMemoryService holds from its
                       \* find_missing_transmissions

vars == <<committees, gc_round, max_gc_rounds, rounds, certificates, batch_ids,
          transmission_ids, transmissions, procs, calls,
          memory_transmissions, memory_result, unix_timestamp, liveness,
          connecting_peers, connected_peers, disconnected_peers, peer_result,
          find_result>>

\* The variables of the BFTMemoryService.
memoryvars == <<memory_transmissions, memory_result>>

\* The clock and the last liveness check.
timestampvars == <<unix_timestamp, liveness>>

\* The PeerBook and the result of its last call.
peervars == <<connecting_peers, connected_peers, disconnected_peers, peer_result>>

\* What the storage and the BFTMemoryService leave alone.
othervars == <<timestampvars, peervars, find_result>>

\* The fields of the storage that the operations write.
storevars == <<committees, gc_round, rounds, certificates, batch_ids,
               transmission_ids, transmissions>>

(* ------------------------------------------------------ maps and integers *)

EmptyMap == [k \in {} |-> k]

Put(m, k, v) == [x \in DOMAIN m \cup {k} |-> IF x = k THEN v ELSE m[x]]

Del(m, k) == [x \in DOMAIN m \ {k} |-> m[x]]

\* u64::saturating_sub
saturating_sub(a, b) == IF a > b THEN a - b ELSE 0

\* The elements of a sequence.
Range(s) == {s[i] : i \in 1..Len(s)}

\* IndexSet::insert: appended unless already present.
IndexSetInsert(s, x) == IF x \in Range(s) THEN s ELSE Append(s, x)

\* IndexSet::remove, which is swap_remove: the last element takes the place
\* of the removed one.
IndexSetRemove(s, x) ==
    IF x \notin Range(s) THEN s
    ELSE LET i == CHOOSE j \in 1..Len(s) : s[j] = x
             n == Len(s)
         IN  [j \in 1..(n - 1) |-> IF j = i THEN s[n] ELSE s[j]]

(* ------------------------------------------------------------ the inputs *)

Authors == {"A", "B", "C", "D"}

TransmissionIDs == {"T1", "T2"}

Transmissions == {"p1", "p2"}

\* A batch certificate, as far as the storage reads it.
BatchCertificate(cid, bid, round, author, tids, prev) ==
    [certificate_id |-> cid, batch_id |-> bid, round |-> round, author |-> author,
     transmission_ids |-> tids, previous_certificate_ids |-> prev]

\* The certificates the callers hold.  A certificate ID is a digest of the
\* certificate and a batch ID a digest of its batch: an ID names one content.
\* Certificates 5 and 6 are two certificates (two signature sets) of one batch.
CertificatePool ==
    { BatchCertificate(1, 1, 0, "A", {"T1"}, {}),
      BatchCertificate(2, 2, 1, "A", {"T1"}, {}),
      BatchCertificate(3, 3, 1, "B", {"T1", "T2"}, {}),
      BatchCertificate(4, 4, 1, "C", {}, {1}),
      BatchCertificate(5, 5, 2, "D", {"T2"}, {2, 3}),
      BatchCertificate(6, 5, 2, "D", {"T2"}, {2, 3}),
      BatchCertificate(7, 7, 2, "A", {"T1"}, {2, 3, 4}),
      BatchCertificate(8, 8, 2, "B", {}, {1, 2}),
      BatchCertificate(9, 9, 3, "C", {"T2"}, {5, 7}) }

CertificateIDs == {c.certificate_id : c \in CertificatePool}

\* The committee of a round: every author with stake 1.
Committee(round) == [round |-> round, members |-> [a \in Authors |-> 1]]

\* The combined stake of a set of members.
RECURSIVE stake_of(_, _)
stake_of(committee, authors) ==
    IF authors = {} THEN 0
    ELSE LET a == CHOOSE x \in authors : TRUE
         IN  committee.members[a] + stake_of(committee, authors \ {a})

total_stake(committee) == stake_of(committee, DOMAIN committee.members)

quorum_threshold(committee) == (2 * total_stake(committee)) \div 3 + 1

(* ------------------------------------------------------------- the store *)

\* The storage as one value, for the operations that call one another.
Store ==
    [committees |-> committees, gc_round |-> gc_round, rounds |-> rounds,
     certificates |-> certificates, batch_ids |-> batch_ids,
     transmission_ids |-> transmission_ids, transmissions |-> transmissions]

\* The variables take the fields of st.
Becomes(st) ==
    /\ committees' = st.committees
    /\ gc_round' = st.gc_round
    /\ rounds' = st.rounds
    /\ certificates' = st.certificates
    /\ batch_ids' = st.batch_ids
    /\ transmission_ids' = st.transmission_ids
    /\ transmissions' = st.transmissions

contains_round(st, round) == round \in DOMAIN st.rounds

\* A lookup of the certificate ID among the batch IDs.
ContainsCertificateAmongBatches(st, cid) == cid \in DOMAIN st.batch_ids

contains_certificate(st, cid) == cid \in DOMAIN st.certificates

contains_batch(st, bid) == bid \in DOMAIN st.batch_ids

contains_transmission(st, tid) == tid \in DOMAIN st.transmissions

\* The certificates of a round, in the order of the round's entries; the
\* entries whose certificate is not stored are skipped.
RECURSIVE CertificatesOf(_, _)
CertificatesOf(st, entries) ==
    IF entries = << >> THEN << >>
    ELSE LET cid == Head(entries)[1]
             rest == CertificatesOf(st, Tail(entries))
         IN  IF cid \in DOMAIN st.certificates
             THEN <<st.certificates[cid]>> \o rest
             ELSE rest

get_certificates_for_round(st, round) ==
    IF round = 0 THEN << >>
    ELSE IF round \in DOMAIN st.rounds THEN CertificatesOf(st, st.rounds[round])
    ELSE << >>

(* ---------------------------------------------------- remove_certificate *)

\* A storage that never evicts a transmission.
keep_transmission(st, tid) == st

remove_transmission(st, tid) == [st EXCEPT !.transmissions = Del(st.transmissions, tid)]

\* The transmission loop of remove_certificate: the certificate ID leaves the
\* set of each declared transmission, and a transmission whose set is then
\* empty is removed with its entry.
RECURSIVE RemoveCitations(_, _, _)
RemoveCitations(st, cid, tids) ==
    IF tids = {} THEN st
    ELSE LET t == CHOOSE x \in tids : TRUE
             left == (IF t \in DOMAIN st.transmission_ids
                      THEN st.transmission_ids[t] ELSE {}) \ {cid}
             s1 == IF left = {}
                   THEN remove_transmission(
                            [st EXCEPT !.transmission_ids = Del(st.transmission_ids, t)], t)
                   ELSE [st EXCEPT !.transmission_ids = Put(st.transmission_ids, t, left)]
         IN  RemoveCitations(s1, cid, tids \ {t})

\* A removal that leaves a round without entries among the rounds.
RemoveRoundEntryKeepingRound(st, certificate) ==
    LET round == certificate.round
        entry == <<certificate.certificate_id, certificate.batch_id, certificate.author>>
    IN  [st EXCEPT !.rounds = Put(st.rounds, round, IndexSetRemove(
            IF round \in DOMAIN st.rounds THEN st.rounds[round] ELSE << >>, entry))]

\* A removal that takes the committee of the certificate's round with it.
RemoveRoundEntryAndCommittee(st, certificate) ==
    [RemoveRoundEntryKeepingRound(st, certificate)
        EXCEPT !.committees = Del(st.committees, certificate.round)]

\* The round's entry of the certificate is removed, and the round with it
\* when no entry is left.
RemoveRoundEntry(st, certificate) ==
    LET round == certificate.round
        entry == <<certificate.certificate_id, certificate.batch_id, certificate.author>>
        entries == IndexSetRemove(
            IF round \in DOMAIN st.rounds THEN st.rounds[round] ELSE << >>, entry)
    IN  [st EXCEPT !.rounds = IF entries = << >> THEN Del(st.rounds, round)
                              ELSE Put(st.rounds, round, entries)]

\* A storage that leaves the batch ID of a removed certificate behind.
KeepBatchID(st, certificate) == st

RemoveBatchID(st, certificate) ==
    [st EXCEPT !.batch_ids = Del(st.batch_ids, certificate.batch_id)]

\* A storage that leaves a removed certificate among the certificates.
KeepCertificateEntry(st, cid) == st

RemoveCertificateEntry(st, cid) ==
    [st EXCEPT !.certificates = Del(st.certificates, cid)]

\* The storage after remove_certificate(cid).
RemoveCertificate(st, cid) ==
    IF cid \notin DOMAIN st.certificates THEN st
    ELSE LET certificate == st.certificates[cid]
             s1 == RemoveRoundEntry(st, certificate)
             s2 == RemoveCertificateEntry(s1, cid)
             s3 == RemoveBatchID(s2, certificate)
         IN  RemoveCitations(s3, cid, certificate.transmission_ids)

\* What remove_certificate(cid) returns.
RemoveCertificateResult(st, cid) == cid \in DOMAIN st.certificates

remove_certificate(cid) ==
    /\ Becomes(RemoveCertificate(Store, cid))
    /\ UNCHANGED max_gc_rounds

(* ------------------------------------------------------ insert_committee *)

\* A collection that leaves the committees of the collected rounds.
keep_committee(st, round) == st

remove_committee(st, round) == [st EXCEPT !.committees = Del(st.committees, round)]

\* remove_certificate for each certificate of the snapshot, in its order.
RECURSIVE RemoveCertificates(_, _)
RemoveCertificates(st, certs) ==
    IF certs = << >> THEN st
    ELSE RemoveCertificates(RemoveCertificate(st, Head(certs).certificate_id), Tail(certs))

\* The loop `for gc_round in current_gc_round..next_gc_round`.
RECURSIVE CollectRounds(_, _, _)
CollectRounds(st, g, next_gc_round) ==
    IF g >= next_gc_round THEN st
    ELSE CollectRounds(
             remove_committee(
                 RemoveCertificates(st, get_certificates_for_round(st, g)), g),
             g + 1, next_gc_round)

\* A collection that starts whenever the next GC round differs.
NeedsCollectionWhenDifferent(current_gc_round, next_gc_round) ==
    next_gc_round # current_gc_round

\* "Check if storage needs to be garbage collected."
NeedsCollection(current_gc_round, next_gc_round) == next_gc_round > current_gc_round

InsertCommittee(st, w, committee) ==
    LET round == committee.round
        s1 == [st EXCEPT !.committees = Put(st.committees, round, committee)]
        current_gc_round == s1.gc_round
        next_gc_round == saturating_sub(round, w)
    IN  IF NeedsCollection(current_gc_round, next_gc_round)
        THEN [CollectRounds(s1, current_gc_round, next_gc_round)
                 EXCEPT !.gc_round = next_gc_round]
        ELSE s1

insert_committee(committee) ==
    /\ Becomes(InsertCommittee(Store, max_gc_rounds, committee))
    /\ UNCHANGED max_gc_rounds

(* ---------------------------------------------------- insert_certificate *)

\* The round before the certificate's.
previous_round(certificate) == saturating_sub(certificate.round, 1)

\* A previous-round check that also covers the GC round itself.
MissingPreviousRoundFromGcRound(st, certificate) ==
    /\ previous_round(certificate) >= st.gc_round
    /\ ~contains_round(st, previous_round(certificate))

\* "Missing state for the previous round": the previous round is above the GC
\* round and holds no certificate.
MissingPreviousRound(st, certificate) ==
    /\ previous_round(certificate) > st.gc_round
    /\ ~contains_round(st, previous_round(certificate))

\* A transmission check under the condition of the previous-round checks.
MissingTransmissionAbovePreviousRound(st, certificate) ==
    /\ previous_round(certificate) > st.gc_round
    /\ \E t \in certificate.transmission_ids : ~contains_transmission(st, t)

\* "Missing transmission": the round is above the GC round and a declared
\* transmission is not stored.
MissingTransmission(st, certificate) ==
    /\ certificate.round > st.gc_round
    /\ \E t \in certificate.transmission_ids : ~contains_transmission(st, t)

\* A committee check with the comparison to the GC round turned around.
MissingCommitteeBelowGcRound(st, certificate) ==
    /\ previous_round(certificate) < st.gc_round
    /\ previous_round(certificate) \notin DOMAIN st.committees

\* "Missing committee for the previous round".
MissingPreviousCommittee(st, certificate) ==
    /\ previous_round(certificate) > st.gc_round
    /\ previous_round(certificate) \notin DOMAIN st.committees

\* A check that the previous certificates are stored, whatever their round.
AbsentPreviousCertificate(st, certificate) ==
    /\ previous_round(certificate) > st.gc_round
    /\ \E p \in certificate.previous_certificate_ids : p \notin DOMAIN st.certificates

\* "Missing previous certificate", or a previous certificate of another round.
BadPreviousCertificate(st, certificate) ==
    /\ previous_round(certificate) > st.gc_round
    /\ \E p \in certificate.previous_certificate_ids :
          \/ p \notin DOMAIN st.certificates
          \/ st.certificates[p].round # previous_round(certificate)

\* An insert_certificate that looks at the batch ID before the certificate ID
\* and at the transmissions before the previous round.
InsertCertificateResultReordered(st, certificate) ==
    IF contains_batch(st, certificate.batch_id) THEN "BatchExists"
    ELSE IF contains_certificate(st, certificate.certificate_id) THEN "CertificateExists"
    ELSE IF MissingTransmission(st, certificate) THEN "MissingTransmission"
    ELSE IF MissingPreviousRound(st, certificate) THEN "MissingPreviousRound"
    ELSE IF MissingPreviousCommittee(st, certificate) THEN "MissingPreviousCommittee"
    ELSE IF BadPreviousCertificate(st, certificate) THEN "MissingPreviousCertificate"
    ELSE "Ok"

\* What insert_certificate returns: "Ok", or the first check that fails.
InsertCertificateResult(st, certificate) ==
    IF contains_certificate(st, certificate.certificate_id) THEN "CertificateExists"
    ELSE IF contains_batch(st, certificate.batch_id) THEN "BatchExists"
    ELSE IF MissingPreviousRound(st, certificate) THEN "MissingPreviousRound"
    ELSE IF MissingTransmission(st, certificate) THEN "MissingTransmission"
    ELSE IF MissingPreviousCommittee(st, certificate) THEN "MissingPreviousCommittee"
    ELSE IF BadPreviousCertificate(st, certificate) THEN "MissingPreviousCertificate"
    ELSE "Ok"

\* A storage that records no batch ID.
SkipBatchID(st, certificate) == st

StoreBatchID(st, certificate) ==
    [st EXCEPT !.batch_ids = Put(st.batch_ids, certificate.batch_id, certificate.round)]

\* The certificate ID joins the set of each declared transmission.
StoreCitations(st, certificate) ==
    LET cid == certificate.certificate_id
        tids == certificate.transmission_ids
    IN  [st EXCEPT !.transmission_ids =
            [t \in DOMAIN st.transmission_ids \cup tids |->
                IF t \in tids
                THEN (IF t \in DOMAIN st.transmission_ids
                      THEN st.transmission_ids[t] ELSE {}) \cup {cid}
                ELSE st.transmission_ids[t]]]

\* The entry of the certificate joins the entries of its round.
StoreRoundEntry(st, certificate) ==
    LET round == certificate.round
        entry == <<certificate.certificate_id, certificate.batch_id, certificate.author>>
    IN  [st EXCEPT !.rounds = Put(st.rounds, round,
            IndexSetInsert(IF round \in DOMAIN st.rounds THEN st.rounds[round]
                           ELSE << >>, entry))]

StoreCertificateEntry(st, certificate) ==
    [st EXCEPT !.certificates =
        Put(st.certificates, certificate.certificate_id, certificate)]

\* The four index updates of an admitted certificate.
StoreCertificate(st, certificate) ==
    LET s1 == StoreRoundEntry(st, certificate)
        s2 == StoreCertificateEntry(s1, certificate)
    IN  StoreCitations(StoreBatchID(s2, certificate), certificate)

InsertCertificate(st, certificate) ==
    IF InsertCertificateResult(st, certificate) = "Ok"
    THEN StoreCertificate(st, certificate)
    ELSE st

insert_certificate(certificate) ==
    /\ Becomes(InsertCertificate(Store, certificate))
    /\ UNCHANGED max_gc_rounds

(* --------------------------------------------------- insert_transmission *)

\* What insert_transmission returns: IndexMap::insert returns the value the
\* new one replaces, if any.
InsertTransmissionResult(st, tid) ==
    IF tid \in DOMAIN st.transmissions THEN st.transmissions[tid] ELSE "None"

\* IndexMap::insert: the value is stored under the key.
InsertTransmission(st, tid, transmission) ==
    [st EXCEPT !.transmissions = Put(st.transmissions, tid, transmission)]

insert_transmission(tid, transmission) ==
    /\ transmissions' = InsertTransmission(Store, tid, transmission).transmissions
    /\ UNCHANGED <<committees, gc_round, max_gc_rounds, rounds, certificates,
                   batch_ids, transmission_ids>>

(* ------------------------------------------------- the BFTMemoryService *)

(***************************************************************************)
(* The in-memory transmission service (node/bft/storage-service/src/       *)
(* memory.rs): one map of transmission ID to the transmission and the IDs  *)
(* of the certificates that cite it, behind one lock, so that each method  *)
(* is one step.  The `round` argument of its methods is not read.          *)
(***************************************************************************)

ServiceCertificateIDs == 1..MaxServiceCertificates

\* The IndexSet<TransmissionID> arguments: the lists without repetition.
TransmissionIDLists ==
    {<< >>} \cup {<<t>> : t \in TransmissionIDs}
            \cup {x \in TransmissionIDs \X TransmissionIDs : x[1] # x[2]}

\* The HashMap<TransmissionID, Transmission> arguments.
TransmissionMaps ==
    UNION {[D -> Transmissions] : D \in SUBSET TransmissionIDs}

\* What a method returns: Ok or not, and the map find_missing_transmissions
\* returns with Ok.
MemoryResult(op, ok, missing) == [op |-> op, ok |-> ok, missing |-> missing]

\* A caller that holds no result of find_missing_transmissions.
NoFind == [pending |-> FALSE, tids |-> << >>, missing |-> EmptyMap]

\* BFTMemoryService::new
MemoryNew ==
    /\ memory_transmissions = EmptyMap
    /\ memory_result = MemoryResult("new", TRUE, EmptyMap)
    /\ find_result = NoFind

\* A service that takes no transmission ID for stored.
KnowsNoTransmission(known, tid) == FALSE

\* known_transmissions.contains_key
KnowsTransmission(known, tid) == tid \in DOMAIN known

\* The loop of find_missing_transmissions over the requested IDs: Ok with the
\* missing transmissions taken out of the provided ones, or the error of the
\* first ID that is neither stored nor provided.
RECURSIVE FindMissingTransmissions(_, _, _, _)
FindMissingTransmissions(known, tids, provided, missing) ==
    IF tids = << >> THEN MemoryResult("find_missing_transmissions", TRUE, missing)
    ELSE LET tid == Head(tids)
         IN  IF KnowsTransmission(known, tid)
             THEN FindMissingTransmissions(known, Tail(tids), provided, missing)
             ELSE IF tid \notin DOMAIN provided
             THEN MemoryResult("find_missing_transmissions", FALSE, EmptyMap)
             ELSE FindMissingTransmissions(known, Tail(tids), Del(provided, tid),
                                           Put(missing, tid, provided[tid]))

find_missing_transmissions(tids, provided) ==
    /\ memory_result' = FindMissingTransmissions(memory_transmissions, tids, provided, EmptyMap)
    /\ UNCHANGED memory_transmissions

\* An entry whose certificate IDs start again with each certificate.
CitedAlone(entry, cid) == [entry EXCEPT !.certificate_ids = {cid}]

\* `.1.insert(certificate_id)`
CitedAlso(entry, cid) == [entry EXCEPT !.certificate_ids = @ \cup {cid}]

\* The loop of insert_transmissions: the entry of each ID, made of the
\* missing transmission if the ID is not stored, takes the certificate ID.
\* `expect` panics at an ID that is neither stored nor among the missing
\* ones, and the entries written before it stay.
RECURSIVE InsertTransmissions(_, _, _, _)
InsertTransmissions(known, cid, tids, missing) ==
    IF tids = << >>
    THEN [transmissions |-> known, result |-> MemoryResult("insert_transmissions", TRUE, EmptyMap)]
    ELSE LET tid == Head(tids)
         IN  IF tid \in DOMAIN known
             THEN InsertTransmissions(
                      Put(known, tid, CitedAlso(known[tid], cid)), cid, Tail(tids), missing)
             ELSE IF tid \notin DOMAIN missing
             THEN [transmissions |-> known,
                   result |-> MemoryResult("insert_transmissions", FALSE, EmptyMap)]
             ELSE InsertTransmissions(
                      Put(known, tid,
                          CitedAlso([transmission |-> missing[tid], certificate_ids |-> {}],
                                    cid)),
                      cid, Tail(tids), Del(missing, tid))

insert_transmissions(round, cid, tids, missing) ==
    LET done == InsertTransmissions(memory_transmissions, cid, tids, missing)
    IN  /\ memory_transmissions' = done.transmissions
        /\ memory_result' = done.result

\* A removal that deletes the entry with its first certificate ID.
AlwaysLastCitation(certificate_ids) == TRUE

\* A removal that keeps the entry whatever is left of its certificate IDs.
NeverLastCitation(certificate_ids) == FALSE

\* certificate_ids.is_empty()
LastCitation(certificate_ids) == certificate_ids = {}

\* The loop of remove_transmissions: the certificate ID leaves the entry of
\* each stored ID, and the entry is removed when no certificate ID is left.
RECURSIVE RemoveTransmissions(_, _, _)
RemoveTransmissions(known, cid, tids) ==
    IF tids = << >> THEN known
    ELSE LET tid == Head(tids)
         IN  IF tid \notin DOMAIN known
             THEN RemoveTransmissions(known, cid, Tail(tids))
             ELSE LET certificate_ids == known[tid].certificate_ids \ {cid}
                  IN  RemoveTransmissions(
                          IF LastCitation(certificate_ids) THEN Del(known, tid)
                          ELSE Put(known, tid,
                                   [known[tid] EXCEPT !.certificate_ids = certificate_ids]),
                          cid, Tail(tids))

remove_transmissions(round, cid, tids) ==
    /\ memory_transmissions' = RemoveTransmissions(memory_transmissions, cid, tids)
    /\ memory_result' = MemoryResult("remove_transmissions", TRUE, EmptyMap)

(* ------------------------------------------ check_timestamp_for_liveness *)

\* The timestamps the callers pass: i64 values before, around and after the
\* clock.  now() + MAX_TIMESTAMP_DELTA_IN_SECS is far from i64::MAX for every
\* reading of the clock, so the sum is the sum of the integers.
Timestamps == -1..(MaxNow + MAX_TIMESTAMP_DELTA_IN_SECS + 2)

now == unix_timestamp

\* No call of check_timestamp_for_liveness yet.
NoLiveness == [timestamp |-> 0, previous_timestamp |-> 0, now |-> 0, result |-> ""]

\* A check that also rejects the timestamp now() + MAX_TIMESTAMP_DELTA_IN_SECS.
CheckTimestampRejectingDelta(current, timestamp, previous_timestamp) ==
    IF timestamp >= current + MAX_TIMESTAMP_DELTA_IN_SECS THEN "TooFarInFuture"
    ELSE IF timestamp <= previous_timestamp THEN "NotAfterPrevious"
    ELSE "Ok"

\* A check of the previous timestamp only.
CheckTimestampAfterPrevious(current, timestamp, previous_timestamp) ==
    IF timestamp <= previous_timestamp THEN "NotAfterPrevious" ELSE "Ok"

\* The result of check_timestamp_for_liveness when now() reads `current`.
CheckTimestampForLiveness(current, timestamp, previous_timestamp) ==
    IF timestamp > current + MAX_TIMESTAMP_DELTA_IN_SECS THEN "TooFarInFuture"
    ELSE IF timestamp <= previous_timestamp THEN "NotAfterPrevious"
    ELSE "Ok"

check_timestamp_for_liveness(timestamp, previous_timestamp) ==
    /\ liveness' = [timestamp |-> timestamp,
                    previous_timestamp |-> previous_timestamp,
                    now |-> now,
                    result |-> CheckTimestampForLiveness(
                                   now, timestamp, previous_timestamp)]
    /\ UNCHANGED unix_timestamp

\* A second passes.
Tick ==
    /\ unix_timestamp < MaxNow
    /\ unix_timestamp' = unix_timestamp + 1
    /\ UNCHANGED liveness

TimestampNew == unix_timestamp = 0 /\ liveness = NoLiveness

(* -------------------------------------------------------------- PeerBook *)

Addresses == 1..MaxPeers

\* Option<SocketAddr>::None
None == 0

PeerInfo(address) == [address |-> address]

PeerBook ==
    [connecting_peers |-> connecting_peers,
     connected_peers |-> connected_peers,
     disconnected_peers |-> disconnected_peers]

is_connecting(book, address) == address \in book.connecting_peers

is_connected(book, address) == address \in DOMAIN book.connected_peers

is_disconnected(book, address) == address \in DOMAIN book.disconnected_peers

\* What a call returns and the book it leaves.
PeerResult(book, ok) == [book |-> book, ok |-> ok]

SetConnecting(book, address) ==
    IF is_connected(book, address) THEN PeerResult(book, FALSE)
    ELSE PeerResult([book EXCEPT !.connecting_peers = @ \cup {address}], TRUE)

\* A set_connected that leaves the connecting peers alone.
SetConnectedKeepingConnecting(book, address, listener_option, info_ok) ==
    LET listener == IF listener_option = None THEN address ELSE listener_option
        peer_info == IF is_disconnected(book, listener)
                     THEN book.disconnected_peers[listener]
                     ELSE PeerInfo(listener)
        removed == [book EXCEPT !.disconnected_peers = Del(@, listener)]
    IN  IF ~info_ok THEN PeerResult(removed, FALSE)
        ELSE PeerResult(
                 [removed EXCEPT !.connected_peers = Put(@, listener, peer_info)], TRUE)

\* set_connected; info_ok is the result of PeerInfo::set_connected, whose
\* code is outside peer_book.rs: the call returns its error after the two
\* removals.
SetConnected(book, address, listener_option, info_ok) ==
    LET listener == IF listener_option = None THEN address ELSE listener_option
        peer_info == IF is_disconnected(book, listener)
                     THEN book.disconnected_peers[listener]
                     ELSE PeerInfo(listener)
        removed == [book EXCEPT !.disconnected_peers = Del(@, listener),
                                !.connecting_peers = @ \ {address}]
    IN  IF ~info_ok THEN PeerResult(removed, FALSE)
        ELSE PeerResult(
                 [removed EXCEPT !.connected_peers = Put(@, listener, peer_info)], TRUE)

AddPeer(book, address) ==
    IF \/ is_connected(book, address)
       \/ is_disconnected(book, address)
       \/ is_connecting(book, address)
    THEN book
    ELSE [book EXCEPT !.disconnected_peers = Put(@, address, PeerInfo(address))]

\* set_disconnected; info_ok is the result of PeerInfo::set_disconnected.
SetDisconnected(book, address, info_ok) ==
    IF is_connecting(book, address)
    THEN PeerResult([book EXCEPT !.connecting_peers = @ \ {address}], TRUE)
    ELSE IF is_connected(book, address)
    THEN LET peer_info == book.connected_peers[address]
             removed == [book EXCEPT !.connected_peers = Del(@, address)]
         IN  IF ~info_ok THEN PeerResult(removed, FALSE)
             ELSE PeerResult(
                      [removed EXCEPT !.disconnected_peers = Put(@, address, peer_info)],
                      TRUE)
    ELSE IF ~is_disconnected(book, address)
    THEN PeerResult(AddPeer(book, address), TRUE)
    ELSE PeerResult(book, TRUE)

RemovePeer(book, address) ==
    [book EXCEPT !.connecting_peers = @ \ {address},
                 !.connected_peers = Del(@, address),
                 !.disconnected_peers = Del(@, address)]

\* The call op(address, listener) leaves the book and the result of `result`.
PeerCall(op, address, listener_option, result) ==
    /\ connecting_peers' = result.book.connecting_peers
    /\ connected_peers' = result.book.connected_peers
    /\ disconnected_peers' = result.book.disconnected_peers
    /\ peer_result' = [op |-> op, address |-> address,
                       listener |-> listener_option, ok |-> result.ok]

set_connecting(address) ==
    PeerCall("set_connecting", address, None, SetConnecting(PeerBook, address))

set_connected(address, listener_option, info_ok) ==
    PeerCall("set_connected", address, listener_option,
             SetConnected(PeerBook, address, listener_option, info_ok))

set_disconnected(address, info_ok) ==
    PeerCall("set_disconnected", address, None,
             SetDisconnected(PeerBook, address, info_ok))

add_peer(address) ==
    PeerCall("add_peer", address, None, PeerResult(AddPeer(PeerBook, address), TRUE))

remove_peer(address) ==
    PeerCall("remove_peer", address, None,
             PeerResult(RemovePeer(PeerBook, address), TRUE))

\* PeerBook::default()
PeerBookDefault ==
    /\ connecting_peers = {}
    /\ connected_peers = EmptyMap
    /\ disconnected_peers = EmptyMap
    /\ peer_result = [op |-> "", address |-> None, listener |-> None, ok |-> TRUE]

(* -------------------------------------------------------------- threads *)

Threads == {"t1", "t2"}

\* A thread that runs no operation, with the result of its last one.
IdleProc(ret) ==
    [pc |-> "idle", ret |-> ret, cert |-> << >>, cid |-> 0, round |-> 0,
     gc |-> 0, next |-> 0, g |-> 0, tids |-> {}, tid |-> "", prevs |-> {},
     queue |-> << >>,
     held |-> {}, caller |-> "", in_rounds |-> FALSE, in_batch_ids |-> FALSE]

(* ------------------------------------------------------ the specification *)

\* Storage::new, with every operation a single step of a single caller.
Init ==
    /\ procs = [t \in Threads |-> IdleProc("")]
    /\ calls = 0
    /\ MemoryNew
    /\ TimestampNew
    /\ PeerBookDefault
    /\ committees = EmptyMap
    /\ gc_round = 0
    /\ max_gc_rounds \in 0..MaxGcRounds
    /\ rounds = EmptyMap
    /\ certificates = EmptyMap
    /\ batch_ids = EmptyMap
    /\ transmission_ids = EmptyMap
    /\ transmissions = EmptyMap

Next ==
    \/ \E r \in 0..MaxRound :
          insert_committee(Committee(r)) /\ UNCHANGED <<procs, calls, memoryvars, othervars>>
    \/ \E c \in CertificatePool :
          /\ Cardinality(DOMAIN certificates) < MaxCerts
          /\ insert_certificate(c)
          /\ UNCHANGED <<procs, calls, memoryvars, othervars>>
    \/ \E cid \in CertificateIDs :
          remove_certificate(cid) /\ UNCHANGED <<procs, calls, memoryvars, othervars>>
    \/ \E t \in TransmissionIDs, p \in Transmissions :
          insert_transmission(t, p) /\ UNCHANGED <<procs, calls, memoryvars, othervars>>

Spec == Init /\ [][Next]_vars

(* ----------------------------------- the operations, one lock at a time *)

(***************************************************************************)
(* The same operations as the threads of a node run them: every step is    *)
(* one acquisition of a lock (or one access of the atomic gc_round) with   *)
(* what is done under it, and the steps of the threads interleave.  A lock *)
(* held over several steps is in the `held` of its thread, with its mode:  *)
(* the read lock of `rounds` in get_certificates_for_round and the write   *)
(* lock of `transmission_ids` in the transmission loop of                  *)
(* remove_certificate.  A step waits while another thread holds its lock   *)
(* in a mode that excludes it.                                             *)
(***************************************************************************)

\* The certificates, certificate IDs, rounds and transmissions the threads
\* call the operations with.
StepCertificates == {c \in CertificatePool : c.certificate_id \in {2, 3, 4, 8}}

StepCertificateIDs == {2, 3}

StepTransmissions == {<<"T1", "p1">>, <<"T2", "p1">>}

\* The lock each statement takes and its mode, by the position of the thread
\* before the statement; << >> for an access of the atomic gc_round and for a
\* thread that runs no operation.
StatementLock(pc) ==
    CASE pc \in {"ic_batch", "rd_batch_ids"} -> <<"batch_ids", "read">>
      [] pc \in {"ic_round", "rd_rounds", "cm_round"} -> <<"rounds", "read">>
      [] pc = "ic_transmission" -> <<"transmissions", "read">>
      [] pc = "ic_committee" -> <<"committees", "read">>
      [] pc \in {"ic_previous", "gr_certificates", "cm_certificates"} ->
             <<"certificates", "read">>
      [] pc \in {"ic_rounds", "rc_rounds"} -> <<"rounds", "write">>
      [] pc \in {"ic_certificates", "rc_certificates"} -> <<"certificates", "write">>
      [] pc \in {"ic_batch_ids", "rc_batch_ids"} -> <<"batch_ids", "write">>
      [] pc \in {"ic_transmission_ids", "rc_lock"} -> <<"transmission_ids", "write">>
      [] pc = "rc_remove_transmission" -> <<"transmissions", "write">>
      [] pc = "cm_committee" -> <<"committees", "write">>
      [] OTHER -> << >>

\* get_certificates_for_round with its two locks taken the other way round.
LockAtCertificatesFirst(pc) ==
    CASE pc = "cm_round" -> <<"certificates", "read">>
      [] pc = "gr_certificates" -> <<"rounds", "read">>
      [] OTHER -> StatementLock(pc)

LockAt(pc) == StatementLock(pc)

\* parking_lot's RwLock: a write guard excludes every other guard of the lock.
Conflicts(want, have) ==
    want[1] = have[1] /\ (want[2] = "write" \/ have[2] = "write")

\* The thread u holds a lock that the thread t cannot take as `want`.
WaitsFor(t, want, u) ==
    /\ want # << >>
    /\ u # t
    /\ \E have \in procs[u].held : Conflicts(want, have)

\* Another thread holds the lock in a mode that excludes `want`.
Blocked(t, want) == \E u \in Threads : WaitsFor(t, want, u)

\* The thread starts an operation, whose first statement takes `want`.
Call(t, want) ==
    /\ procs[t].pc = "idle"
    /\ ~Blocked(t, want)
    /\ calls < MaxCalls
    /\ calls' = calls + 1

\* The thread goes on in its operation, once it has the lock of its statement.
At(t, pc) ==
    /\ procs[t].pc = pc
    /\ ~Blocked(t, LockAt(pc))
    /\ UNCHANGED calls

Goto(t, p) == procs' = [procs EXCEPT ![t] = p]

\* The operation of the thread returns.
Return(t, ret) == Goto(t, IdleProc(ret))

Reads == UNCHANGED <<storevars, max_gc_rounds, memoryvars, othervars>>

Writes(st) == Becomes(st) /\ UNCHANGED <<max_gc_rounds, memoryvars, othervars>>

\* Where insert_certificate goes on after the check of the previous round,
\* and after the check of the transmissions.
AfterPreviousRound(c, gc) ==
    IF c.round > gc /\ c.transmission_ids # {} THEN "ic_transmission"
    ELSE IF previous_round(c) > gc THEN "ic_committee"
    ELSE "ic_rounds"

AfterTransmissions(c, gc) ==
    IF previous_round(c) > gc THEN "ic_committee" ELSE "ic_rounds"

ic_contains_certificate(t, c) ==
    /\ Call(t, <<"certificates", "read">>)
    /\ Reads
    /\ IF contains_certificate(Store, c.certificate_id)
       THEN Return(t, "CertificateExists")
       ELSE Goto(t, [IdleProc("") EXCEPT !.pc = "ic_batch", !.cert = <<c>>])

ic_contains_batch(t) ==
    /\ At(t, "ic_batch")
    /\ Reads
    /\ IF contains_batch(Store, procs[t].cert[1].batch_id)
       THEN Return(t, "BatchExists")
       ELSE Goto(t, [procs[t] EXCEPT !.pc = "ic_gc"])

ic_gc_round(t) ==
    /\ At(t, "ic_gc")
    /\ Reads
    /\ LET c == procs[t].cert[1]
       IN  Goto(t, [procs[t] EXCEPT
               !.gc = gc_round,
               !.tids = c.transmission_ids,
               !.pc = IF previous_round(c) > gc_round THEN "ic_round"
                      ELSE AfterPreviousRound(c, gc_round)])

ic_contains_round(t) ==
    /\ At(t, "ic_round")
    /\ Reads
    /\ LET c == procs[t].cert[1]
       IN  IF ~contains_round(Store, previous_round(c))
           THEN Return(t, "MissingPreviousRound")
           ELSE Goto(t, [procs[t] EXCEPT !.pc = AfterPreviousRound(c, procs[t].gc)])

\* One turn of the loop over the declared transmission IDs, in the order of
\* the certificate, which the model leaves open.
ic_contains_transmission(t) ==
    /\ At(t, "ic_transmission")
    /\ Reads
    /\ \E tid \in procs[t].tids :
          IF ~contains_transmission(Store, tid)
          THEN Return(t, "MissingTransmission")
          ELSE Goto(t, [procs[t] EXCEPT
                   !.tids = @ \ {tid},
                   !.pc = IF procs[t].tids = {tid}
                          THEN AfterTransmissions(procs[t].cert[1], procs[t].gc)
                          ELSE "ic_transmission"])

ic_get_committee(t) ==
    /\ At(t, "ic_committee")
    /\ Reads
    /\ LET c == procs[t].cert[1]
       IN  IF previous_round(c) \notin DOMAIN committees
           THEN Return(t, "MissingPreviousCommittee")
           ELSE Goto(t, [procs[t] EXCEPT
                    !.prevs = c.previous_certificate_ids,
                    !.pc = IF c.previous_certificate_ids = {} THEN "ic_rounds"
                           ELSE "ic_previous"])

\* One turn of the loop over the previous certificate IDs.
ic_get_certificate(t) ==
    /\ At(t, "ic_previous")
    /\ Reads
    /\ \E p \in procs[t].prevs :
          IF \/ p \notin DOMAIN certificates
             \/ certificates[p].round # previous_round(procs[t].cert[1])
          THEN Return(t, "MissingPreviousCertificate")
          ELSE Goto(t, [procs[t] EXCEPT
                   !.prevs = @ \ {p},
                   !.pc = IF procs[t].prevs = {p} THEN "ic_rounds" ELSE "ic_previous"])

ic_write_rounds(t) ==
    /\ At(t, "ic_rounds")
    /\ Writes(StoreRoundEntry(Store, procs[t].cert[1]))
    /\ Goto(t, [procs[t] EXCEPT !.pc = "ic_certificates"])

ic_write_certificates(t) ==
    /\ At(t, "ic_certificates")
    /\ Writes(StoreCertificateEntry(Store, procs[t].cert[1]))
    /\ Goto(t, [procs[t] EXCEPT !.pc = "ic_batch_ids"])

ic_write_batch_ids(t) ==
    /\ At(t, "ic_batch_ids")
    /\ Writes(StoreBatchID(Store, procs[t].cert[1]))
    /\ Goto(t, [procs[t] EXCEPT !.pc = "ic_transmission_ids"])

ic_write_transmission_ids(t) ==
    /\ At(t, "ic_transmission_ids")
    /\ Writes(StoreCitations(Store, procs[t].cert[1]))
    /\ Return(t, "Ok")

\* insert_transmission takes one lock.
it_insert(t, tid, transmission) ==
    /\ Call(t, <<"transmissions", "write">>)
    /\ Writes(InsertTransmission(Store, tid, transmission))
    /\ Return(t, InsertTransmissionResult(Store, tid))

\* A reader: it takes a certificate from certificates_iter, then looks for
\* the certificate's entry in rounds_iter and for its batch ID in
\* batch_ids_iter.
rd_certificates(t) ==
    /\ Call(t, <<"certificates", "read">>)
    /\ Reads
    /\ \E cid \in DOMAIN certificates :
          Goto(t, [IdleProc("") EXCEPT !.pc = "rd_rounds", !.cert = <<certificates[cid]>>])

rd_rounds(t) ==
    /\ At(t, "rd_rounds")
    /\ Reads
    /\ LET c == procs[t].cert[1]
       IN  Goto(t, [procs[t] EXCEPT
               !.pc = "rd_batch_ids",
               !.in_rounds =
                   /\ c.round \in DOMAIN rounds
                   /\ <<c.certificate_id, c.batch_id, c.author>> \in Range(rounds[c.round])])

rd_batch_ids(t) ==
    /\ At(t, "rd_batch_ids")
    /\ Reads
    /\ Goto(t, [procs[t] EXCEPT
           !.pc = "idle", !.ret = "Read",
           !.in_batch_ids = procs[t].cert[1].batch_id \in DOMAIN batch_ids])

\* remove_certificate returns to its caller: to the loop of insert_committee
\* over the certificates of the GC round, or to the thread.
ReturnFromRemove(t, ret) ==
    IF procs[t].caller = "insert_committee"
    THEN Goto(t, [procs[t] EXCEPT
             !.cert = << >>, !.cid = 0, !.tids = {}, !.tid = "",
             !.held = {},
             !.pc = IF procs[t].queue = << >> THEN "cm_committee" ELSE "cm_certificates"])
    ELSE Return(t, ret)

\* get_certificate in remove_certificate(cid), called by p.
GetCertificateToRemove(t, p, cid) ==
    IF cid \notin DOMAIN certificates
    THEN IF p.caller = "insert_committee"
         THEN Goto(t, [p EXCEPT !.pc = IF p.queue = << >> THEN "cm_committee"
                                       ELSE "cm_certificates"])
         ELSE Return(t, "false")
    ELSE Goto(t, [p EXCEPT !.pc = "rc_rounds", !.cid = cid,
                           !.cert = <<certificates[cid]>>])

rc_get_certificate(t, cid) ==
    /\ Call(t, <<"certificates", "read">>)
    /\ Reads
    /\ GetCertificateToRemove(t, IdleProc(""), cid)

rc_write_rounds(t) ==
    /\ At(t, "rc_rounds")
    /\ Writes(RemoveRoundEntry(Store, procs[t].cert[1]))
    /\ Goto(t, [procs[t] EXCEPT !.pc = "rc_certificates"])

rc_write_certificates(t) ==
    /\ At(t, "rc_certificates")
    /\ Writes(RemoveCertificateEntry(Store, procs[t].cid))
    /\ Goto(t, [procs[t] EXCEPT !.pc = "rc_batch_ids"])

rc_write_batch_ids(t) ==
    /\ At(t, "rc_batch_ids")
    /\ Writes(RemoveBatchID(Store, procs[t].cert[1]))
    /\ Goto(t, [procs[t] EXCEPT !.pc = "rc_lock"])

\* The write lock of transmission_ids is taken for the whole transmission
\* loop; a certificate without transmissions gives it back at once.
rc_lock_transmission_ids(t) ==
    /\ At(t, "rc_lock")
    /\ Reads
    /\ IF procs[t].cert[1].transmission_ids = {}
       THEN ReturnFromRemove(t, "true")
       ELSE Goto(t, [procs[t] EXCEPT
                !.pc = "rc_transmission",
                !.tids = procs[t].cert[1].transmission_ids,
                !.held = @ \cup {LockAt("rc_lock")}])

\* After a turn of the transmission loop: the next turn, or the end of
\* remove_certificate, which gives the lock of transmission_ids back.
AfterCitation(t, tid) ==
    IF procs[t].tids = {tid}
    THEN ReturnFromRemove(t, "true")
    ELSE Goto(t, [procs[t] EXCEPT !.pc = "rc_transmission", !.tids = @ \ {tid}])

\* One turn of the transmission loop under the write lock of
\* transmission_ids: the certificate ID leaves the set of the transmission,
\* and an empty set is removed.
rc_remove_citation(t) ==
    /\ At(t, "rc_transmission")
    /\ \E tid \in procs[t].tids :
          LET s1 == RemoveCitations(Store, procs[t].cid, {tid})
          IN  /\ Writes([Store EXCEPT !.transmission_ids = s1.transmission_ids])
              /\ IF tid \in DOMAIN s1.transmission_ids
                 THEN AfterCitation(t, tid)
                 ELSE Goto(t, [procs[t] EXCEPT !.pc = "rc_remove_transmission",
                                               !.tid = tid])

\* remove_transmission in the same turn: it takes the write lock of
\* transmissions while the thread holds the one of transmission_ids.
rc_remove_transmission(t) ==
    /\ At(t, "rc_remove_transmission")
    /\ Writes(remove_transmission(Store, procs[t].tid))
    /\ AfterCitation(t, procs[t].tid)

cm_insert(t, committee) ==
    /\ Call(t, <<"committees", "write">>)
    /\ Writes([Store EXCEPT !.committees = Put(committees, committee.round, committee)])
    /\ Goto(t, [IdleProc("") EXCEPT !.pc = "cm_gc", !.round = committee.round])

cm_gc_round(t) ==
    /\ At(t, "cm_gc")
    /\ Reads
    /\ LET current_gc_round == gc_round
           next_gc_round == saturating_sub(procs[t].round, max_gc_rounds)
       IN  IF NeedsCollection(current_gc_round, next_gc_round)
           THEN Goto(t, [procs[t] EXCEPT !.pc = "cm_round", !.caller = "insert_committee",
                                         !.g = current_gc_round, !.next = next_gc_round])
           ELSE Return(t, "()")

\* get_certificates_for_round(g) up to its read lock of rounds, which it
\* keeps when the round has entries.
gr_read_rounds(t) ==
    /\ At(t, "cm_round")
    /\ Reads
    /\ IF procs[t].g = 0 \/ procs[t].g \notin DOMAIN rounds
       THEN Goto(t, [procs[t] EXCEPT !.pc = "cm_committee"])
       ELSE Goto(t, [procs[t] EXCEPT !.pc = "gr_certificates",
                                     !.held = @ \cup {LockAt("cm_round")}])

\* get_certificates_for_round(g) under the read lock of certificates; both
\* locks are given back and the loop over the certificates starts.
gr_read_certificates(t) ==
    /\ At(t, "gr_certificates")
    /\ Reads
    /\ LET found == CertificatesOf(Store, rounds[procs[t].g])
           queue == [i \in 1..Len(found) |-> found[i].certificate_id]
       IN  Goto(t, [procs[t] EXCEPT
               !.held = {},
               !.queue = queue,
               !.pc = IF queue = << >> THEN "cm_committee" ELSE "cm_certificates"])

\* remove_certificate of the next certificate of the GC round, up to its
\* get_certificate.
cm_remove_certificate(t) ==
    /\ At(t, "cm_certificates")
    /\ Reads
    /\ GetCertificateToRemove(
           t, [procs[t] EXCEPT !.queue = Tail(@)], Head(procs[t].queue))

cm_remove_committee(t) ==
    /\ At(t, "cm_committee")
    /\ Writes(remove_committee(Store, procs[t].g))
    /\ Goto(t, [procs[t] EXCEPT
           !.g = @ + 1,
           !.pc = IF procs[t].g + 1 < procs[t].next THEN "cm_round" ELSE "cm_store"])

cm_store_gc_round(t) ==
    /\ At(t, "cm_store")
    /\ Writes([Store EXCEPT !.gc_round = procs[t].next])
    /\ Return(t, "()")

\* The steps of insert_certificate after its first.
InsertCertificateSteps(t) ==
    \/ ic_contains_batch(t)
    \/ ic_gc_round(t)
    \/ ic_contains_round(t)
    \/ ic_contains_transmission(t)
    \/ ic_get_committee(t)
    \/ ic_get_certificate(t)
    \/ ic_write_rounds(t)
    \/ ic_write_certificates(t)
    \/ ic_write_batch_ids(t)
    \/ ic_write_transmission_ids(t)

\* Threads that insert certificates and transmissions, and threads that read.
NextInsertRead ==
    \E t \in Threads :
        \/ \E c \in StepCertificates : ic_contains_certificate(t, c)
        \/ InsertCertificateSteps(t)
        \/ \E x \in StepTransmissions : it_insert(t, x[1], x[2])
        \/ rd_certificates(t)
        \/ rd_rounds(t)
        \/ rd_batch_ids(t)

\* A storage that keeps at least one round, after insert_committee for the
\* rounds 0 and 1: nothing was collected, and the certificates of round 2 find
\* the committee of their previous round.
InitInsertRead ==
    /\ committees = [r \in 0..1 |-> Committee(r)]
    /\ gc_round = 0
    /\ max_gc_rounds \in 1..MaxGcRounds
    /\ rounds = EmptyMap
    /\ certificates = EmptyMap
    /\ batch_ids = EmptyMap
    /\ transmission_ids = EmptyMap
    /\ transmissions = EmptyMap
    /\ procs = [t \in Threads |-> IdleProc("")]
    /\ calls = 0
    /\ MemoryNew
    /\ TimestampNew
    /\ PeerBookDefault

SpecInsertRead == InitInsertRead /\ [][NextInsertRead]_vars

\* Threads that call every operation of the storage.
NextSteps ==
    \E t \in Threads :
        \/ \E c \in StepCertificates : ic_contains_certificate(t, c)
        \/ InsertCertificateSteps(t)
        \/ \E x \in StepTransmissions : it_insert(t, x[1], x[2])
        \/ \E cid \in StepCertificateIDs : rc_get_certificate(t, cid)
        \/ rc_write_rounds(t)
        \/ rc_write_certificates(t)
        \/ rc_write_batch_ids(t)
        \/ rc_lock_transmission_ids(t)
        \/ rc_remove_citation(t)
        \/ rc_remove_transmission(t)
        \/ \E r \in 0..MaxRound : cm_insert(t, Committee(r))
        \/ cm_gc_round(t)
        \/ gr_read_rounds(t)
        \/ gr_read_certificates(t)
        \/ cm_remove_certificate(t)
        \/ cm_remove_committee(t)
        \/ cm_store_gc_round(t)

SpecSteps == Init /\ [][NextSteps]_vars

\* What the threads call the operations with when the locks are looked at: a
\* certificate of round 1 that cites a transmission, a certificate of round 2
\* that names it as a previous certificate, and the committees of the rounds
\* 1 and 2.
LockCertificates == {c \in CertificatePool : c.certificate_id \in {2, 8}}

LockCertificateIDs == {2}

LockTransmissions == {<<"T1", "p1">>}

LockCommitteeRounds == {1, 2}

\* Threads that call every operation of the storage with these.
NextLocks ==
    \E t \in Threads :
        \/ \E c \in LockCertificates : ic_contains_certificate(t, c)
        \/ InsertCertificateSteps(t)
        \/ \E x \in LockTransmissions : it_insert(t, x[1], x[2])
        \/ rd_certificates(t)
        \/ rd_rounds(t)
        \/ rd_batch_ids(t)
        \/ \E cid \in LockCertificateIDs : rc_get_certificate(t, cid)
        \/ rc_write_rounds(t)
        \/ rc_write_certificates(t)
        \/ rc_write_batch_ids(t)
        \/ rc_lock_transmission_ids(t)
        \/ rc_remove_citation(t)
        \/ rc_remove_transmission(t)
        \/ \E r \in LockCommitteeRounds : cm_insert(t, Committee(r))
        \/ cm_gc_round(t)
        \/ gr_read_rounds(t)
        \/ gr_read_certificates(t)
        \/ cm_remove_certificate(t)
        \/ cm_remove_committee(t)
        \/ cm_store_gc_round(t)

\* A storage that keeps no round behind the newest committee: every
\* insert_committee of a later round sweeps.
InitLocks == Init /\ max_gc_rounds = 0

SpecLocks == InitLocks /\ [][NextLocks]_vars

(* ------------------------------- one insertion against one removal *)

\* Two certificates of round 1 that cite the transmission T1: A is stored and
\* is removed, B is inserted.
CertificateA == CHOOSE c \in CertificatePool : c.certificate_id = 2

CertificateB == CHOOSE c \in CertificatePool : c.certificate_id = 3

\* The storage after insert_transmission of the transmissions that A and B
\* cite and insert_certificate(A).
StorageWithA ==
    LET new == [committees |-> EmptyMap, gc_round |-> 0, rounds |-> EmptyMap,
                certificates |-> EmptyMap, batch_ids |-> EmptyMap,
                transmission_ids |-> EmptyMap, transmissions |-> EmptyMap]
        t1 == InsertTransmission(new, "T1", "p1")
        t2 == InsertTransmission(t1, "T2", "p2")
    IN  InsertCertificate(t2, CertificateA)

InitInsertRemove ==
    /\ committees = StorageWithA.committees
    /\ gc_round = StorageWithA.gc_round
    /\ max_gc_rounds = 0
    /\ rounds = StorageWithA.rounds
    /\ certificates = StorageWithA.certificates
    /\ batch_ids = StorageWithA.batch_ids
    /\ transmission_ids = StorageWithA.transmission_ids
    /\ transmissions = StorageWithA.transmissions
    /\ procs = [t \in Threads |-> IdleProc("")]
    /\ calls = 0
    /\ MemoryNew
    /\ TimestampNew
    /\ PeerBookDefault

\* Threads that call insert_certificate(B) and remove_certificate(A).
NextInsertRemove ==
    \E t \in Threads :
        \/ ic_contains_certificate(t, CertificateB)
        \/ ic_contains_batch(t)
        \/ ic_gc_round(t)
        \/ ic_contains_transmission(t)
        \/ ic_write_rounds(t)
        \/ ic_write_certificates(t)
        \/ ic_write_batch_ids(t)
        \/ ic_write_transmission_ids(t)
        \/ rc_get_certificate(t, CertificateA.certificate_id)
        \/ rc_write_rounds(t)
        \/ rc_write_certificates(t)
        \/ rc_write_batch_ids(t)
        \/ rc_lock_transmission_ids(t)
        \/ rc_remove_citation(t)
        \/ rc_remove_transmission(t)

SpecInsertRemove == InitInsertRemove /\ [][NextInsertRemove]_vars

(* ------------------------------------- the BFTMemoryService on its own *)

\* Callers of the three methods of the service; the Storage stays as new.
NextMemory ==
    \/ \E tids \in TransmissionIDLists, provided \in TransmissionMaps :
          /\ find_missing_transmissions(tids, provided)
          /\ UNCHANGED <<storevars, max_gc_rounds, procs, calls, othervars>>
    \/ \E round \in 0..MaxRound, cid \in ServiceCertificateIDs,
          tids \in TransmissionIDLists, missing \in TransmissionMaps :
          /\ insert_transmissions(round, cid, tids, missing)
          /\ UNCHANGED <<storevars, max_gc_rounds, procs, calls, othervars>>
    \/ \E round \in 0..MaxRound, cid \in ServiceCertificateIDs,
          tids \in TransmissionIDLists :
          /\ remove_transmissions(round, cid, tids)
          /\ UNCHANGED <<storevars, max_gc_rounds, procs, calls, othervars>>

\* BFTMemoryService::new, beside a Storage that keeps no round.
InitMemory == Init /\ max_gc_rounds = 0

SpecMemory == InitMemory /\ [][NextMemory]_vars

(* ------------------------------------ a caller of the BFTMemoryService *)

\* Everything of the storage and of its threads.
storagevars == <<storevars, max_gc_rounds, procs, calls>>

\* The caller asks which transmissions are missing and keeps the answer.
cl_find(tids, provided) ==
    /\ find_missing_transmissions(tids, provided)
    /\ find_result' = IF memory_result'.ok
                THEN [pending |-> TRUE, tids |-> tids, missing |-> memory_result'.missing]
                ELSE NoFind

\* The caller inserts the transmissions of the certificate with the answer
\* it holds.
cl_insert(round, cid) ==
    /\ find_result.pending
    /\ insert_transmissions(round, cid, find_result.tids, find_result.missing)
    /\ find_result' = NoFind

\* The caller runs find_missing_transmissions and then insert_transmissions,
\* while other threads call remove_transmissions.
NextMemoryCaller ==
    \/ \E tids \in TransmissionIDLists, provided \in TransmissionMaps :
          /\ cl_find(tids, provided)
          /\ UNCHANGED <<storagevars, timestampvars, peervars>>
    \/ \E round \in 0..MaxRound, cid \in ServiceCertificateIDs :
          /\ cl_insert(round, cid)
          /\ UNCHANGED <<storagevars, timestampvars, peervars>>
    \/ \E round \in 0..MaxRound, cid \in ServiceCertificateIDs,
          tids \in TransmissionIDLists :
          /\ remove_transmissions(round, cid, tids)
          /\ UNCHANGED <<storagevars, timestampvars, peervars, find_result>>

SpecMemoryCaller == InitMemory /\ [][NextMemoryCaller]_vars

(* ----------------------------------------------- the liveness check alone *)

\* Callers that check timestamps while the clock runs.
NextTimestamp ==
    \/ Tick /\ UNCHANGED <<storagevars, memoryvars, peervars, find_result>>
    \/ \E timestamp, previous_timestamp \in Timestamps :
          /\ check_timestamp_for_liveness(timestamp, previous_timestamp)
          /\ UNCHANGED <<storagevars, memoryvars, peervars, find_result>>

SpecTimestamp == InitMemory /\ [][NextTimestamp]_vars

(* --------------------------------------------------- the PeerBook alone *)

\* A node that calls the PeerBook: `&mut self` makes every call one step.
NextPeerBook ==
    \/ \E address \in Addresses :
          add_peer(address) /\ UNCHANGED <<storagevars, memoryvars, timestampvars, find_result>>
    \/ \E address \in Addresses :
          set_connecting(address) /\ UNCHANGED <<storagevars, memoryvars, timestampvars, find_result>>
    \/ \E address \in Addresses, listener \in {None} \cup Addresses, ok \in BOOLEAN :
          /\ set_connected(address, listener, ok)
          /\ UNCHANGED <<storagevars, memoryvars, timestampvars, find_result>>
    \/ \E address \in Addresses, ok \in BOOLEAN :
          /\ set_disconnected(address, ok)
          /\ UNCHANGED <<storagevars, memoryvars, timestampvars, find_result>>
    \/ \E address \in Addresses :
          remove_peer(address) /\ UNCHANGED <<storagevars, memoryvars, timestampvars, find_result>>

SpecPeerBook == InitMemory /\ [][NextPeerBook]_vars

(* ------------------------------------------------------------ properties *)

\* The stored certificates.
Stored == {certificates[cid] : cid \in DOMAIN certificates}

\* A stored certificate declares the transmission.
Cited(t) == \E cid \in DOMAIN certificates : t \in certificates[cid].transmission_ids

\* The step stores the certificate.
Admitted(c) ==
    /\ c.certificate_id \notin DOMAIN certificates
    /\ c.certificate_id \in DOMAIN certificates'

\* The test helper is_empty.
is_empty(st) ==
    /\ DOMAIN st.committees = {}
    /\ DOMAIN st.rounds = {}
    /\ DOMAIN st.certificates = {}
    /\ DOMAIN st.batch_ids = {}
    /\ DOMAIN st.transmissions = {}

\* C1 (I1): every stored certificate ID has exactly one entry in the round of
\* its certificate, and the batch ID of the certificate maps to that round.
C1_CertificateIndexed ==
    \A cid \in DOMAIN certificates :
        LET c == certificates[cid]
        IN  /\ c.round \in DOMAIN rounds
            /\ Cardinality({i \in 1..Len(rounds[c.round]) :
                               rounds[c.round][i][1] = cid}) = 1
            /\ c.batch_id \in DOMAIN batch_ids
            /\ batch_ids[c.batch_id] = c.round

\* Three certificates are stored, two of them in one round, after a garbage
\* collection.
C1_Witness ==
    /\ Cardinality(DOMAIN certificates) = 3
    /\ \E r \in DOMAIN rounds : Len(rounds[r]) = 2
    /\ gc_round > 0

\* C2 (I2): for every stored certificate and every transmission ID it
\* declares, the certificate ID is in the citation set of the transmission ID
\* and the transmission is stored.
C2_CitedAndStored ==
    \A cid \in DOMAIN certificates :
        \A t \in certificates[cid].transmission_ids :
            /\ t \in DOMAIN transmission_ids
            /\ cid \in transmission_ids[t]
            /\ t \in DOMAIN transmissions

\* C3 (P6): a step that removes the last stored certificate citing a
\* transmission ID leaves the ID out of the transmissions and out of the
\* citation index; the index holds only IDs that a stored certificate cites;
\* a stored transmission that a certificate still cites after the step stays
\* stored; and only insert_transmission brings an ID back.
C3_RefcountCorrect ==
    [][\A t \in TransmissionIDs :
          /\ (Cited(t) /\ ~Cited(t)') =>
                 (t \notin DOMAIN transmissions' /\ t \notin DOMAIN transmission_ids')
          /\ (t \in DOMAIN transmission_ids') => Cited(t)'
          /\ (Cited(t)' /\ t \in DOMAIN transmissions) => t \in DOMAIN transmissions'
          /\ (t \notin DOMAIN transmissions /\ t \in DOMAIN transmissions') =>
                 \E p \in Transmissions : insert_transmission(t, p)]_vars

\* After a garbage collection one transmission is neither stored nor indexed,
\* and another is stored and cited by a single certificate.
C3_Witness ==
    /\ gc_round > 0
    /\ \E t, u \in TransmissionIDs :
          /\ t \notin DOMAIN transmissions
          /\ t \notin DOMAIN transmission_ids
          /\ u \in DOMAIN transmissions
          /\ u \in DOMAIN transmission_ids
          /\ Cardinality(transmission_ids[u]) = 1

\* The authors of the stored previous certificates of a certificate.
PreviousAuthors(c) ==
    {certificates[p].author : p \in c.previous_certificate_ids \cap DOMAIN certificates}

\* C4 (P7): a certificate whose previous round is above gc_round is admitted
\* only if the combined stake of the authors of its previous certificates, in
\* the committee of the previous round, reaches the quorum threshold; and it is
\* admitted when the stake reaches the threshold and no other check fails.
C4_QuorumGate ==
    [][\A c \in CertificatePool :
          /\ (Admitted(c) /\ previous_round(c) > gc_round) =>
                 stake_of(committees[previous_round(c)], PreviousAuthors(c))
                     >= quorum_threshold(committees[previous_round(c)])
          /\ (/\ insert_certificate(c)
              /\ InsertCertificateResult(Store, c) = "Ok") => Admitted(c)]_vars

\* C5 (I4): every previous certificate ID of a stored certificate of a round
\* above gc_round names a stored certificate of the round before.
C5_PreviousStored ==
    \A c \in Stored :
        c.round > gc_round =>
            \A p \in c.previous_certificate_ids :
                /\ p \in DOMAIN certificates
                /\ certificates[p].round = c.round - 1

\* C5, amended: when a certificate whose previous round is above gc_round is
\* admitted, every previous certificate ID it declares names a certificate
\* stored at the previous round.
C5_PreviousStoredAtAdmission ==
    [][\A c \in CertificatePool :
          (Admitted(c) /\ previous_round(c) > gc_round) =>
              \A p \in c.previous_certificate_ids :
                  /\ p \in DOMAIN certificates
                  /\ certificates[p].round = previous_round(c)]_vars

\* A certificate with previous certificates is stored, its previous round is
\* above gc_round, and each of them is stored at that round.
C5_Witness ==
    \E c \in Stored :
        /\ previous_round(c) > gc_round
        /\ c.previous_certificate_ids # {}
        /\ \A p \in c.previous_certificate_ids :
              /\ p \in DOMAIN certificates
              /\ certificates[p].round = previous_round(c)

\* C6 (I6): no committee, round, certificate or batch ID of a round below
\* gc_round is stored.
C6_NothingBelowGcRound ==
    /\ \A r \in DOMAIN committees : r >= gc_round
    /\ \A r \in DOMAIN rounds : r >= gc_round
    /\ \A c \in Stored : c.round >= gc_round
    /\ \A b \in DOMAIN batch_ids : batch_ids[b] >= gc_round

\* Nothing of a round below r is stored.
NothingBelow(st, r) ==
    /\ \A k \in DOMAIN st.committees : k >= r
    /\ \A k \in DOMAIN st.rounds : k >= r
    /\ \A cid \in DOMAIN st.certificates : st.certificates[cid].round >= r
    /\ \A b \in DOMAIN st.batch_ids : st.batch_ids[b] >= r

\* C7 (P5): right after insert_committee for a round r >= max_gc_rounds,
\* nothing of a round below r - max_gc_rounds is stored.
C7_CollectedBelowWindow ==
    [][\A r \in 0..MaxRound :
          (insert_committee(Committee(r)) /\ r >= max_gc_rounds) =>
              NothingBelow(Store, r - max_gc_rounds)']_vars

\* C8 (I6): gc_round never decreases.
C8_GcRoundMonotonic == [][gc_round' >= gc_round]_vars

\* The GC round has advanced to 2 or more and the committee of round 0, which
\* was inserted after that, is stored.
C8_Witness == gc_round >= 2 /\ 0 \in DOMAIN committees

\* C9 (I7): a certificate of a round r > 0 is admitted only while the
\* committee of round r is stored.
C9_CommitteeOfRoundDefined ==
    [][\A c \in CertificatePool :
          (Admitted(c) /\ c.round > 0) => c.round \in DOMAIN committees]_vars

\* C9, amended: a certificate whose previous round is above gc_round is
\* admitted only while the committee of the previous round is stored.
C9_PreviousCommitteeDefined ==
    [][\A c \in CertificatePool :
          (Admitted(c) /\ previous_round(c) > gc_round) =>
              previous_round(c) \in DOMAIN committees]_vars

\* A certificate is stored whose previous round is above gc_round and has its
\* committee, while the certificate's own round has none.
C9_Witness ==
    \E c \in Stored :
        /\ previous_round(c) > gc_round
        /\ previous_round(c) \in DOMAIN committees
        /\ c.round \notin DOMAIN committees

\* The certificate was inserted into an empty storage that held exactly the
\* transmissions it declares.
RoundTripState(c) ==
    /\ DOMAIN committees = {}
    /\ gc_round = 0
    /\ DOMAIN certificates = {c.certificate_id}
    /\ certificates[c.certificate_id] = c
    /\ DOMAIN transmissions = c.transmission_ids

\* C10 (P1): from that state remove_certificate of the certificate returns
\* true and leaves the storage empty, the certificate unknown and its round
\* without certificates.
C10_RoundTrip ==
    [][\A c \in CertificatePool :
          (RoundTripState(c) /\ remove_certificate(c.certificate_id)) =>
              /\ RemoveCertificateResult(Store, c.certificate_id)
              /\ is_empty(Store)'
              /\ DOMAIN transmission_ids' = {}
              /\ ~contains_certificate(Store, c.certificate_id)'
              /\ get_certificates_for_round(Store, c.round)' = << >>]_vars

\* A certificate that declares transmissions is the only one stored, in a
\* storage that holds its transmissions and nothing else.
C10_Witness ==
    \E c \in CertificatePool : RoundTripState(c) /\ c.transmission_ids # {}

\* C11 (P4): remove_certificate of a stored certificate ID returns true, a
\* second remove_certificate of the same ID returns false and changes no
\* index; remove_certificate of an ID that is not stored returns false and
\* changes no index.
C11_IdempotentRemoval ==
    \A cid \in CertificateIDs :
        LET once == RemoveCertificate(Store, cid)
        IN  /\ cid \in DOMAIN certificates =>
                  /\ RemoveCertificateResult(Store, cid)
                  /\ ~RemoveCertificateResult(once, cid)
                  /\ RemoveCertificate(once, cid) = once
            /\ cid \notin DOMAIN certificates =>
                  /\ ~RemoveCertificateResult(Store, cid)
                  /\ once = Store

\* Two certificates of one round that cite one stored transmission are
\* stored, so that a removal takes an entry out of a round that stays and out
\* of a citation set that stays.
C11_Witness ==
    \E a, b \in DOMAIN certificates :
        /\ a # b
        /\ certificates[a].round = certificates[b].round
        /\ \E t \in certificates[a].transmission_ids \cap certificates[b].transmission_ids :
              t \in DOMAIN transmissions /\ transmission_ids[t] = {a, b}

\* C12 (P5): insert_certificate of a certificate whose certificate ID is
\* stored returns the error "already exists" and changes no index, no
\* committee and not the GC round.
C12_DuplicateRejected ==
    \A c \in CertificatePool :
        c.certificate_id \in DOMAIN certificates =>
            /\ InsertCertificateResult(Store, c) = "CertificateExists"
            /\ InsertCertificate(Store, c) = Store

\* A certificate is stored whose second insertion would pass every check but
\* the one for its certificate ID and its batch ID.
C12_Witness ==
    \E c \in CertificatePool :
        /\ c.certificate_id \in DOMAIN certificates
        /\ c.round > gc_round
        /\ ~MissingPreviousRound(Store, c)
        /\ ~MissingTransmission(Store, c)
        /\ ~MissingPreviousCommittee(Store, c)
        /\ ~BadPreviousCertificate(Store, c)

\* C13: insert_certificate of a certificate of a round above the GC round that
\* declares a transmission ID which is not stored returns an error and changes
\* no index.
C13_MissingTransmissionRejected ==
    \A c \in CertificatePool :
        (/\ c.round > gc_round
         /\ \E t \in c.transmission_ids : t \notin DOMAIN transmissions) =>
            /\ InsertCertificateResult(Store, c) # "Ok"
            /\ InsertCertificate(Store, c) = Store

\* A new certificate of a round above the GC round is rejected for a missing
\* transmission, while another of its transmissions is stored.
C13_Witness ==
    \E c \in CertificatePool :
        /\ InsertCertificateResult(Store, c) = "MissingTransmission"
        /\ \E t \in c.transmission_ids : t \in DOMAIN transmissions

\* C14: when the previous round of a certificate is above the GC round,
\* insert_certificate fails and changes nothing if the previous round holds no
\* certificate or has no committee; when the previous round is at or below the
\* GC round neither is required: a new certificate whose transmissions are
\* stored (or whose round is at or below the GC round) is admitted.
C14_PreviousRoundAndCommittee ==
    \A c \in CertificatePool :
        /\ (/\ previous_round(c) > gc_round
            /\ \/ previous_round(c) \notin DOMAIN rounds
               \/ previous_round(c) \notin DOMAIN committees) =>
               /\ InsertCertificateResult(Store, c) # "Ok"
               /\ InsertCertificate(Store, c) = Store
        /\ (/\ previous_round(c) <= gc_round
            /\ c.certificate_id \notin DOMAIN certificates
            /\ c.batch_id \notin DOMAIN batch_ids
            /\ \/ c.round <= gc_round
               \/ c.transmission_ids \subseteq DOMAIN transmissions) =>
               InsertCertificateResult(Store, c) = "Ok"

\* One new certificate is rejected only for the missing committee of its
\* previous round, and another, whose previous round is the GC round, is
\* admitted although that round has neither a certificate nor a committee.
C14_Witness ==
    /\ \E c \in CertificatePool :
          InsertCertificateResult(Store, c) = "MissingPreviousCommittee"
    /\ \E c \in CertificatePool :
          /\ InsertCertificateResult(Store, c) = "Ok"
          /\ c.round > 0
          /\ previous_round(c) = gc_round
          /\ previous_round(c) \notin DOMAIN rounds
          /\ previous_round(c) \notin DOMAIN committees

\* C15: when the previous round of a certificate is above the GC round,
\* insert_certificate fails and changes nothing if a declared previous
\* certificate ID is not stored or is stored at another round than the
\* previous round.
C15_PreviousCertificates ==
    \A c \in CertificatePool :
        (/\ previous_round(c) > gc_round
         /\ \E p \in c.previous_certificate_ids :
               \/ p \notin DOMAIN certificates
               \/ certificates[p].round # previous_round(c)) =>
            /\ InsertCertificateResult(Store, c) # "Ok"
            /\ InsertCertificate(Store, c) = Store

\* A new certificate passes every check up to the previous certificates and
\* is rejected because a declared previous certificate is stored at another
\* round than the previous round.
C15_Witness ==
    \E c \in CertificatePool :
        /\ InsertCertificateResult(Store, c) = "MissingPreviousCertificate"
        /\ \E p \in c.previous_certificate_ids :
              /\ p \in DOMAIN certificates
              /\ certificates[p].round # previous_round(c)

\* C17: insert_certificate of a certificate whose round is at or below the GC
\* round returns an error and changes nothing.
C17_AtOrBelowGcRoundRejected ==
    \A c \in CertificatePool :
        c.round <= gc_round =>
            /\ InsertCertificateResult(Store, c) # "Ok"
            /\ InsertCertificate(Store, c) = Store

\* The rounds insert_committee(committee) collects: from the GC round up to,
\* and without, the next GC round.
CollectedRounds(committee) ==
    {g \in 0..MaxRound :
        /\ g >= gc_round
        /\ g < saturating_sub(committee.round, max_gc_rounds)}

\* The stored certificates that declare the transmission.
Citing(t) == {cid \in DOMAIN certificates : t \in certificates[cid].transmission_ids}

\* C19 (P3): when insert_committee collects a round g > 0, every certificate
\* stored at g leaves the certificates, the rounds and the batch IDs, the
\* committee of g is removed, a transmission all of whose citing certificates
\* were collected is removed, and a stored transmission that a surviving
\* certificate cites stays stored.
C19_EvictionCascade ==
    [][\A r \in 0..MaxRound :
          insert_committee(Committee(r)) =>
              LET gone == CollectedRounds(Committee(r)) \ {0}
              IN  /\ \A cid \in DOMAIN certificates :
                        certificates[cid].round \in gone =>
                            /\ cid \notin DOMAIN certificates'
                            /\ certificates[cid].batch_id \notin DOMAIN batch_ids'
                  /\ \A g \in gone :
                        /\ g \notin DOMAIN rounds'
                        /\ g \notin DOMAIN committees'
                  /\ \A t \in TransmissionIDs :
                        /\ (/\ Citing(t) # {}
                            /\ \A cid \in Citing(t) : certificates[cid].round \in gone) =>
                               t \notin DOMAIN transmissions'
                        /\ (/\ t \in DOMAIN transmissions
                            /\ \E cid \in Citing(t) : certificates[cid].round \notin gone) =>
                               t \in DOMAIN transmissions']_vars

\* A certificate of a round above 0 is stored with the committee of its round
\* and cites two stored transmissions, one of them shared with a certificate
\* of a later round: the next committee of a higher round collects it.
C19_Witness ==
    \E a, b \in DOMAIN certificates :
        /\ certificates[a].round > 0
        /\ certificates[a].round >= gc_round
        /\ certificates[a].round \in DOMAIN committees
        /\ certificates[b].round > certificates[a].round
        /\ \E t, u \in DOMAIN transmissions :
              /\ t # u
              /\ Citing(t) = {a}
              /\ Citing(u) = {a, b}
        /\ saturating_sub(MaxRound, max_gc_rounds) > certificates[a].round

\* C20: right after an insert_committee that advances the GC round to g, the
\* round g holds no certificate and has no committee.
C20_GcRoundItselfPruned ==
    [][gc_round' > gc_round =>
          /\ ~(gc_round' \in DOMAIN rounds' /\ rounds'[gc_round'] # << >>)
          /\ gc_round' \notin DOMAIN committees']_vars

\* C16 (P7, S6): while threads run insert_certificate and other threads read,
\* a reader that has taken a certificate from `certificates` then finds the
\* certificate's entry in the rounds and its batch ID in the batch IDs.
C16_AtomicVisibility ==
    \A t \in Threads :
        (procs[t].pc = "idle" /\ procs[t].ret = "Read") =>
            procs[t].in_rounds /\ procs[t].in_batch_ids

\* The thread is in the sweep of insert_committee and this step of it removes
\* a certificate or a committee.
SweepRemoves(t) ==
    /\ procs[t].caller = "insert_committee"
    /\ procs'[t] # procs[t]
    /\ \/ /\ DOMAIN certificates' \subseteq DOMAIN certificates
          /\ DOMAIN certificates' # DOMAIN certificates
       \/ /\ DOMAIN committees' \subseteq DOMAIN committees
          /\ DOMAIN committees' # DOMAIN committees

\* C18: a step of the sweep of insert_committee that removes a certificate or
\* the committee of the round g it collects is taken when the GC round
\* already reads a value above g: the new GC round is published before the
\* entries are removed.
C18_PublishedBeforeRemoval ==
    [][\A t \in Threads : SweepRemoves(t) => gc_round > procs[t].g]_vars

\* C21: insert_committee of a committee of round r stores it at committees[r]
\* and leaves the GC round at the maximum of the previous GC round and
\* r - max_gc_rounds (saturating at 0); when r - max_gc_rounds is at most the
\* previous GC round it removes no certificate, no committee and no
\* transmission.
C21_InsertCommitteeResult ==
    \A r \in 0..MaxRound :
        LET after == InsertCommittee(Store, max_gc_rounds, Committee(r))
            next_gc_round == saturating_sub(r, max_gc_rounds)
        IN  /\ r \in DOMAIN after.committees
            /\ after.committees[r] = Committee(r)
            /\ after.gc_round = IF next_gc_round > gc_round THEN next_gc_round
                                ELSE gc_round
            /\ next_gc_round <= gc_round =>
                  after = [Store EXCEPT !.committees = Put(committees, r, Committee(r))]

\* After a collection, with certificates, committees and transmissions
\* stored: a committee of a round at or below the GC round collects nothing,
\* and a committee of a later round collects again.
C21_Witness ==
    /\ gc_round = 1
    /\ saturating_sub(MaxRound, max_gc_rounds) > gc_round
    /\ DOMAIN certificates # {}
    /\ DOMAIN committees # {}
    /\ DOMAIN transmissions # {}

\* C22: a step that changes the GC round or the committees is an
\* insert_committee; insert_certificate, admitted or not, remove_certificate
\* and insert_transmission leave the GC round and the committees as they are.
C22_OnlyInsertCommittee ==
    [][(gc_round' # gc_round \/ committees' # committees) =>
          /\ \E r \in 0..MaxRound : insert_committee(Committee(r))
          /\ ~\E c \in CertificatePool : insert_certificate(c)
          /\ ~\E cid \in CertificateIDs : remove_certificate(cid)
          /\ ~\E t \in TransmissionIDs, p \in Transmissions :
                 insert_transmission(t, p)]_vars

\* The GC round is above 0, and a certificate is stored whose round has a
\* committee and no other certificate: its removal empties the round.
C22_Witness ==
    /\ gc_round > 0
    /\ \E cid \in DOMAIN certificates :
          /\ certificates[cid].round \in DOMAIN committees
          /\ Len(rounds[certificates[cid].round]) = 1

\* C23: no stored certificate has round 0 and the rounds have no entry for
\* round 0.
C23_NoRoundZeroCertificate ==
    /\ \A cid \in DOMAIN certificates : certificates[cid].round # 0
    /\ 0 \notin DOMAIN rounds

\* C24 (I5): every round among the rounds has at least one entry, and
\* contains_round(r) holds iff a certificate of round r is stored.
C24_NoEmptyRound ==
    /\ \A r \in DOMAIN rounds : rounds[r] # << >>
    /\ \A r \in 0..(MaxRound + 1) :
          contains_round(Store, r) <=>
              \E cid \in DOMAIN certificates : certificates[cid].round = r

\* After a garbage collection, one round holds two certificates and no other
\* round is left: rounds were emptied, by the collection or by removals.
C24_Witness ==
    /\ gc_round > 0
    /\ Cardinality(DOMAIN rounds) = 1
    /\ \E r \in DOMAIN rounds : Len(rounds[r]) = 2

\* C25: for every round r > 0, get_certificates_for_round(r) returns exactly
\* the stored certificates of round r; a step keeps the relative order of
\* the certificates it leaves in the round and puts the certificates it
\* admits after them.
C25_StableAdmissionOrder ==
    [][\A r \in 1..(MaxRound + 1) :
          LET before == get_certificates_for_round(Store, r)
              after == get_certificates_for_round(Store, r)'
              Stays(c) == c \in Range(before) /\ c \in Range(after)
          IN  /\ Range(after) = {c \in Stored' : c.round = r}
              /\ SelectSeq(after, Stays) = SelectSeq(before, Stays)
              /\ \A i, j \in 1..Len(after) :
                    (Stays(after[i]) /\ ~Stays(after[j])) => i < j]_vars

\* C26: a step leaves the payload of every transmission that is stored
\* before and after it: insert_transmission of a stored transmission ID
\* does not replace the payload.
C26_PayloadNeverReplaced ==
    [][\A t \in DOMAIN transmissions \cap DOMAIN transmissions' :
          transmissions'[t] = transmissions[t]]_vars

\* The place of each lock in the order committees, rounds, certificates,
\* batch_ids, transmission_ids, transmissions.
LockRank(lock) ==
    CASE lock = "committees" -> 1
      [] lock = "rounds" -> 2
      [] lock = "certificates" -> 3
      [] lock = "batch_ids" -> 4
      [] lock = "transmission_ids" -> 5
      [] lock = "transmissions" -> 6

\* The threads that are inside an operation.
Running == {t \in Threads : procs[t].pc # "idle"}

\* C27: under every interleaving of the operations of the storage, a thread
\* that holds a lock while it takes another one takes a lock that comes later
\* in the order committees, rounds, certificates, batch_ids, transmission_ids,
\* transmissions; no set of threads wait for locks that only threads of the
\* set hold; and while some thread is inside an operation, some thread inside
\* an operation can take its next step.
C27_LockOrderNoDeadlock ==
    /\ \A t \in Threads : \A have \in procs[t].held :
           LockAt(procs[t].pc) # << >> =>
               LockRank(have[1]) < LockRank(LockAt(procs[t].pc)[1])
    /\ ~\E waiting \in SUBSET Threads \ {{}} :
           \A t \in waiting :
               \E u \in waiting : WaitsFor(t, LockAt(procs[t].pc), u)
    /\ Running # {} => ENABLED (NextLocks /\ UNCHANGED calls)

\* A thread holds the read lock of rounds and is about to take the one of
\* certificates, while another thread waits for the write lock of rounds.
C27_Witness ==
    \E t, u \in Threads :
        /\ procs[t].pc = "gr_certificates"
        /\ <<"rounds", "read">> \in procs[t].held
        /\ procs[u].pc \in {"ic_rounds", "rc_rounds"}
        /\ WaitsFor(u, LockAt(procs[u].pc), t)

\* C28: find_missing_transmissions(requested, provided) returns Ok iff every
\* requested ID is stored or provided; with Ok it returns the provided
\* transmission of exactly the requested IDs that are not stored; the stored
\* entries are as before in both outcomes.
C28_FindMissing ==
    [][\A tids \in TransmissionIDLists, provided \in TransmissionMaps :
          find_missing_transmissions(tids, provided) =>
              LET absent == Range(tids) \ DOMAIN memory_transmissions
              IN  /\ memory_result'.ok <=> absent \subseteq DOMAIN provided
                  /\ memory_result'.ok =>
                        memory_result'.missing = [t \in absent |-> provided[t]]
                  /\ memory_transmissions' = memory_transmissions]_vars

\* find_missing_transmissions was asked for a stored and for a missing
\* transmission and has returned the missing one.
C28_Witness ==
    /\ memory_result.op = "find_missing_transmissions"
    /\ memory_result.ok
    /\ DOMAIN memory_transmissions # {}
    /\ DOMAIN memory_result.missing # {}
    /\ DOMAIN memory_result.missing \cap DOMAIN memory_transmissions = {}

\* C29: insert_transmissions(round, cid, tids, missing) with every ID of
\* tids stored or among the missing ones: afterwards every ID of tids is
\* stored and cited by cid; an ID stored before keeps its transmission and
\* its certificate IDs; an ID not stored before has the missing transmission
\* and cid alone; the entries of the other IDs are as before.
C29_InsertTransmissions ==
    \A cid \in ServiceCertificateIDs, tids \in TransmissionIDLists,
       missing \in TransmissionMaps :
        Range(tids) \subseteq DOMAIN memory_transmissions \cup DOMAIN missing =>
            LET done == InsertTransmissions(memory_transmissions, cid, tids, missing)
                after == done.transmissions
            IN  /\ done.result.ok
                /\ DOMAIN after = DOMAIN memory_transmissions \cup Range(tids)
                /\ \A t \in DOMAIN after :
                      IF t \notin Range(tids)
                      THEN after[t] = memory_transmissions[t]
                      ELSE IF t \in DOMAIN memory_transmissions
                      THEN after[t] =
                               [transmission |-> memory_transmissions[t].transmission,
                                certificate_ids |->
                                    memory_transmissions[t].certificate_ids \cup {cid}]
                      ELSE after[t] =
                               [transmission |-> missing[t], certificate_ids |-> {cid}]

\* Two transmissions are stored with different transmissions, one cited by
\* two certificates and one by a single certificate.
C29_Witness ==
    /\ memory_result.op = "insert_transmissions"
    /\ memory_result.ok
    /\ \E t, u \in DOMAIN memory_transmissions :
          /\ memory_transmissions[t].transmission # memory_transmissions[u].transmission
          /\ Cardinality(memory_transmissions[t].certificate_ids) = 2
          /\ Cardinality(memory_transmissions[u].certificate_ids) = 1

\* C30: remove_transmissions(round, cid, tids) returns Ok; for each stored ID
\* of tids, cid leaves its certificate IDs and the entry is deleted exactly
\* when none is left; the IDs of tids that are not stored are ignored and
\* the entries of the other IDs are as before.
C30_RemoveTransmissions ==
    \A cid \in ServiceCertificateIDs, tids \in TransmissionIDLists :
        LET after == RemoveTransmissions(memory_transmissions, cid, tids)
        IN  /\ DOMAIN after \subseteq DOMAIN memory_transmissions
            /\ \A t \in DOMAIN memory_transmissions :
                  IF t \notin Range(tids)
                  THEN t \in DOMAIN after /\ after[t] = memory_transmissions[t]
                  ELSE LET left == memory_transmissions[t].certificate_ids \ {cid}
                       IN  /\ t \in DOMAIN after <=> left # {}
                           /\ left # {} =>
                                 after[t] =
                                     [transmission |-> memory_transmissions[t].transmission,
                                      certificate_ids |-> left]
            /\ memory_result.op = "remove_transmissions" => memory_result.ok

\* remove_transmissions has returned with one transmission stored and still
\* cited, and the other not stored.
C30_Witness ==
    /\ memory_result.op = "remove_transmissions"
    /\ Cardinality(DOMAIN memory_transmissions) = 1
    /\ \E t \in DOMAIN memory_transmissions :
          Cardinality(memory_transmissions[t].certificate_ids) = 1
FutureTimestamp(least) ==
    /\ liveness.result # ""
    /\ liveness.timestamp >= liveness.now + least
    /\ liveness.previous_timestamp >= 0
    /\ liveness.previous_timestamp < liveness.now

C33_SetConnected ==
    \A a \in Addresses :
        LET result == SetConnected(PeerBook, a, None, TRUE)
        IN  result.ok =>
                /\ is_connected(result.book, a)
                /\ ~is_connecting(result.book, a)
                /\ ~is_disconnected(result.book, a)

\* The last call was a set_connected(a, None) that succeeded, in a book where
\* another address is connecting and disconnected: a is connected.
C33_Witness ==
    /\ peer_result.op = "set_connected"
    /\ peer_result.listener = None
    /\ peer_result.ok
    /\ peer_result.address \in DOMAIN connected_peers
    /\ \E b \in Addresses \ {peer_result.address} :
           b \in connecting_peers /\ b \in DOMAIN disconnected_peers

\* C34: from every state of the peer book, a set_disconnected(a) that succeeds
\* leaves a out of the connecting and of the connected peers and in the
\* disconnected peers.
C34_SetDisconnected ==
    \A a \in Addresses :
        LET result == SetDisconnected(PeerBook, a, TRUE)
        IN  result.ok =>
                /\ ~is_connecting(result.book, a)
                /\ ~is_connected(result.book, a)
                /\ is_disconnected(result.book, a)

\* C40: after every sequence of add_peer, set_connecting, set_connected,
\* set_disconnected and remove_peer, no address is both connected and
\* disconnected and no address is both connecting and connected.
C40_DisjointPeerSets ==
    /\ DOMAIN connected_peers \cap DOMAIN disconnected_peers = {}
    /\ connecting_peers \cap DOMAIN connected_peers = {}

\* The admission checks, in the order of the pipeline, that the certificate
\* fails in the present state: (1) its ID is stored, (2) its batch ID is
\* stored, (3) the previous round is above the GC round and has no entry,
\* (4) the round is above the GC round and a declared transmission is not
\* stored, (5) the previous round is above the GC round and has no committee,
\* (6) it is and a previous certificate is not stored or of another round,
\* (7) it is, the committee and the previous certificates are there, and the
\* stake of their authors is below the quorum threshold.
FailingChecks(c) ==
    LET prev == saturating_sub(c.round, 1)
        parents == prev > gc_round
    IN  {k \in 1..7 :
           \/ k = 1 /\ c.certificate_id \in DOMAIN certificates
           \/ k = 2 /\ c.batch_id \in DOMAIN batch_ids
           \/ k = 3 /\ parents /\ prev \notin DOMAIN rounds
           \/ k = 4 /\ c.round > gc_round
                    /\ c.transmission_ids \ DOMAIN transmissions # {}
           \/ k = 5 /\ parents /\ prev \notin DOMAIN committees
           \/ k = 6 /\ parents
                    /\ \E p \in c.previous_certificate_ids :
                          \/ p \notin DOMAIN certificates
                          \/ certificates[p].round # prev
           \/ k = 7 /\ parents /\ prev \in DOMAIN committees
                    /\ \A p \in c.previous_certificate_ids :
                          p \in DOMAIN certificates /\ certificates[p].round = prev
                    /\ stake_of(committees[prev], PreviousAuthors(c))
                           < quorum_threshold(committees[prev])}

\* The error of each check.
ErrorOfCheck(k) ==
    CASE k = 1 -> "CertificateExists"
      [] k = 2 -> "BatchExists"
      [] k = 3 -> "MissingPreviousRound"
      [] k = 4 -> "MissingTransmission"
      [] k = 5 -> "MissingPreviousCommittee"
      [] k = 6 -> "MissingPreviousCertificate"
      [] k = 7 -> "ParentsBelowQuorum"

\* C35: insert_certificate of a certificate that fails several admission
\* checks at once returns the error of the first of them in the order
\* (1) certificate ID exists, (2) batch ID exists, (3) missing previous round,
\* (4) missing transmission, (5) missing previous committee, (6) missing or
\* misplaced previous certificate, (7) parents below quorum; and a certificate
\* with a new ID and a stored batch ID is rejected as an existing batch.
C35_FirstFailingCheck ==
    \A c \in CertificatePool :
        /\ Cardinality(FailingChecks(c)) >= 2 =>
               \E k \in FailingChecks(c) :
                   /\ \A j \in FailingChecks(c) : k <= j
                   /\ InsertCertificateResult(Store, c) = ErrorOfCheck(k)
        /\ (c.certificate_id \notin DOMAIN certificates
                /\ c.batch_id \in DOMAIN batch_ids) =>
               InsertCertificateResult(Store, c) = "BatchExists"

\* A certificate with a new ID fails the check of the batch ID and a later
\* check, and a certificate fails the check of the quorum and an earlier one.
C35_Witness ==
    /\ \E c \in CertificatePool :
           /\ c.certificate_id \notin DOMAIN certificates
           /\ 2 \in FailingChecks(c)
           /\ FailingChecks(c) \cap 3..7 # {}
    /\ \E c \in CertificatePool :
           7 \in FailingChecks(c) /\ Cardinality(FailingChecks(c)) >= 2

\* C36: while threads run insert_committee for different rounds, interleaved
\* at their single steps (committee insert, load of the GC round, removals,
\* store of the GC round), no store lowers the GC round: a value of gc_round
\* read later is at least every value read earlier.
C36_ConcurrentGcRoundMonotonic ==
    [][\A t \in Threads : cm_store_gc_round(t) => gc_round' >= gc_round]_vars

\* C37: when insert_certificate(B) runs against remove_certificate(A), A and B
\* citing the transmission T, and B is admitted, then once the calls have
\* returned T is stored, B is among the certificates that cite T, and every
\* batch ID and every entry of a round belongs to a stored certificate.
C37_ReferentialIntegrity ==
    (/\ \A t \in Threads : procs[t].pc = "idle"
     /\ CertificateB.certificate_id \in DOMAIN certificates) =>
        /\ \A tid \in CertificateA.transmission_ids \cap CertificateB.transmission_ids :
               /\ tid \in DOMAIN transmissions
               /\ tid \in DOMAIN transmission_ids
               /\ CertificateB.certificate_id \in transmission_ids[tid]
        /\ \A b \in DOMAIN batch_ids : \E c \in Stored : c.batch_id = b
        /\ \A r \in DOMAIN rounds : \A e \in Range(rounds[r]) :
               e[1] \in DOMAIN certificates

\* C38: an insert_transmissions(round, cid, tids, missing) that is called with
\* the missing transmissions a find_missing_transmissions(tids, provided) has
\* returned does not panic, whatever remove_transmissions other threads call
\* between the two.
C38_NoPanicAfterFind ==
    memory_result.op = "insert_transmissions" => memory_result.ok

\* The pairs <<certificate ID, transmission ID>> of a transmissions map: the
\* certificate ID is in the set of the transmission.
Citations(known) ==
    UNION {{<<cid, tid>> : cid \in known[tid].certificate_ids} : tid \in DOMAIN known}

\* The pairs an insert_transmissions or remove_transmissions call is about.
CitationsOf(cid, tids) == {<<cid, tid>> : tid \in Range(tids)}

\* C39: after any sequence of insert_transmissions and remove_transmissions,
\* every stored transmission has a certificate ID in its set, and a
\* certificate ID is in the set of a transmission only through an
\* insert_transmissions for the two that no remove_transmissions for the two
\* has followed: the service starts empty, insert_transmissions adds citations
\* of its certificate ID and its transmission IDs only, and
\* remove_transmissions adds none and leaves none of its certificate ID and
\* its transmission IDs.
C39_CitationsOfStoredTransmissions ==
    /\ \A tid \in DOMAIN memory_transmissions :
          memory_transmissions[tid].certificate_ids # {}
    /\ memory_result.op = "new" => Citations(memory_transmissions) = {}
    /\ \A cid \in ServiceCertificateIDs, tids \in TransmissionIDLists,
          missing \in TransmissionMaps :
          Citations(InsertTransmissions(memory_transmissions, cid, tids, missing).transmissions)
              \subseteq Citations(memory_transmissions) \cup CitationsOf(cid, tids)
    /\ \A cid \in ServiceCertificateIDs, tids \in TransmissionIDLists :
          Citations(RemoveTransmissions(memory_transmissions, cid, tids))
              \subseteq Citations(memory_transmissions) \ CitationsOf(cid, tids)

\* remove_transmissions has returned: one transmission is cited by two
\* certificates and the other by one of them only.
C39_Witness ==
    /\ memory_result.op = "remove_transmissions"
    /\ \E t, u \in DOMAIN memory_transmissions :
          /\ Cardinality(memory_transmissions[t].certificate_ids) = 2
          /\ Cardinality(memory_transmissions[u].certificate_ids) = 1
          /\ memory_transmissions[u].certificate_ids \subseteq
                 memory_transmissions[t].certificate_ids

====
